---- MODULE Spec2Model ----
(***************************************************************************)
(* knowbase: the content pipeline of src/state.rs (set_page, get_page,     *)
(* run_search) and the upload handler of src/main.rs (upload_file).        *)
(*                                                                         *)
(* Text is a sequence of bytes.  An ASCII byte is written as its           *)
(* character ("a", "+", "\n"); a byte >= 0x80 is written as its two hex    *)
(* digits ("C3", "A9"), so that is_char_boundary can be modelled on the    *)
(* UTF-8 encoding as Rust computes it.                                     *)
(***************************************************************************)
EXTENDS Naturals, Sequences, FiniteSets

VARIABLES
    store,      \* the redis hash PAGE_KEY: field (path) -> JSON text
    pc,         \* set_page calls: position of each call
    arg,        \* set_page calls: the arguments (path, md) of each call
    loc,        \* set_page calls: the locals md (after replace_range), root, page
    nwrites,    \* history: number of HSETs each set_page call has issued
    lastWriter, \* history: path -> the call whose HSET on that path came last
    got,        \* get_page: <<path, result>> of the latest get_page, or <<>>
    upload,     \* upload_file: the request being handled (archive, position, response)
    search      \* run_search: the latest query and the results returned

vars == <<store, pc, arg, loc, nwrites, lastWriter, got, upload, search>>

(***************************************************************************)
(* Strings                                                                 *)
(***************************************************************************)
Min(a, b) == IF a <= b THEN a ELSE b
Max(a, b) == IF a >= b THEN a ELSE b

\* s[from..] (1-based), the empty string when from is past the end
Drop(s, from) == SubSeq(s, from, Len(s))

\* str::starts_with at offset i (1-based): s[i..] starts with t
StartsWithAt(s, t, i) ==
    /\ i >= 1
    /\ i + Len(t) - 1 <= Len(s)
    /\ SubSeq(s, i, i + Len(t) - 1) = t

StartsWith(s, t) == StartsWithAt(s, t, 1)

EndsWith(s, t) == Len(t) <= Len(s) /\ SubSeq(s, Len(s) - Len(t) + 1, Len(s)) = t

\* the offsets >= from at which t occurs in s
Occurrences(s, t, from) == {i \in from..(Len(s) - Len(t) + 1) : StartsWithAt(s, t, i)}

Contains(s, t) == Occurrences(s, t, 1) # {}

MinOf(S) == CHOOSE x \in S : \A y \in S : x <= y

\* str::find from an offset: the first occurrence, 0 when there is none
Find(s, t, from) == IF Occurrences(s, t, from) = {} THEN 0 ELSE MinOf(Occurrences(s, t, from))

\* the first offset >= 1 of s holding a byte of set B, 0 when there is none
FindAny(s, B) ==
    LET I == {i \in 1..Len(s) : s[i] \in B}
    IN  IF I = {} THEN 0 ELSE MinOf(I)

NL == "\n"

(***************************************************************************)
(* UTF-8                                                                   *)
(***************************************************************************)
HexDigits == {"0", "1", "2", "3", "4", "5", "6", "7", "8", "9", "A", "B", "C", "D", "E", "F"}

\* the bytes 0x80..0xBF: the continuation bytes of a multi-byte character
ContinuationBytes == {h \o l : h \in {"8", "9", "A", "B"}, l \in HexDigits}

\* str::is_char_boundary(index), index a 0-based byte offset
is_char_boundary(s, index) ==
    IF index = 0 THEN TRUE
    ELSE IF index >= Len(s) THEN index = Len(s)
    ELSE s[index + 1] \notin ContinuationBytes

(***************************************************************************)
(* INDEX_RE: (?s)\+\+\+INDEX\+\+\+\n(.*?)\n---INDEX---                     *)
(***************************************************************************)
START_TOKEN == <<"+", "+", "+", "I", "N", "D", "E", "X", "+", "+", "+">>
END_TOKEN == <<"-", "-", "-", "I", "N", "D", "E", "X", "-", "-", "-">>

RE_HEAD == START_TOKEN \o <<NL>>
RE_TAIL == <<NL>> \o END_TOKEN

\* the offsets at which a match of INDEX_RE can start: the head, and the tail
\* somewhere after it (the lazy group may be empty)
ReStarts(md) ==
    {i \in Occurrences(md, RE_HEAD, 1) : Occurrences(md, RE_TAIL, i + Len(RE_HEAD)) # {}}

\* Regex::captures: the leftmost match, its lazy group ending at the nearest
\* tail.  <<>> when there is no match, else <<[from, to, g1from, g1to]>>
\* (1-based, inclusive; group 1 is empty when g1to < g1from).
INDEX_RE_captures(md) ==
    IF ReStarts(md) = {} THEN <<>>
    ELSE LET i == MinOf(ReStarts(md))
             j == Find(md, RE_TAIL, i + Len(RE_HEAD))
         IN  <<[from |-> i, to |-> j + Len(RE_TAIL) - 1,
                g1from |-> i + Len(RE_HEAD), g1to |-> j - 1]>>

\* String::replace_range(range, "")
replace_range(md, from, to) == SubSeq(md, 1, from - 1) \o Drop(md, to + 1)

(***************************************************************************)
(* comrak: parse_document, format_html, markdown_to_html, reduced to the   *)
(* constructs the pipeline acts on: one paragraph of text, hard line       *)
(* breaks and inline links [label](destination).                           *)
(***************************************************************************)
Node(value, url, literal, children) ==
    [value |-> value, url |-> url, literal |-> literal, children |-> children]

TextNode(s) == Node("Text", <<>>, s, <<>>)
LinkNode(url, label) ==
    Node("Link", url, <<>>, IF label = <<>> THEN <<>> ELSE <<TextNode(label)>>)

LINK_MID == <<"]", "(">>

\* the first inline link of s: <<>> or <<[open, mid, close]>>, the offsets of
\* "[", "](" and ")"
FirstLink(s) ==
    LET opens == {i \in 1..Len(s) : s[i] = "[" /\ Find(s, LINK_MID, i + 1) # 0
                                    /\ Find(s, <<")">>, Find(s, LINK_MID, i + 1) + 2) # 0}
    IN  IF opens = {} THEN <<>>
        ELSE LET i == MinOf(opens)
                 j == Find(s, LINK_MID, i + 1)
             IN  <<[open |-> i, mid |-> j, close |-> Find(s, <<")">>, j + 2)]>>

RECURSIVE ParseInlines(_)
ParseInlines(s) ==
    IF s = <<>> THEN <<>>
    ELSE IF FirstLink(s) = <<>> THEN <<TextNode(s)>>
    ELSE LET l == FirstLink(s)[1]
             before == SubSeq(s, 1, l.open - 1)
             link == LinkNode(SubSeq(s, l.mid + 2, l.close - 1),
                              SubSeq(s, l.open + 1, l.mid - 1))
         IN  (IF before = <<>> THEN <<>> ELSE <<TextNode(before)>>)
             \o <<link>> \o ParseInlines(Drop(s, l.close + 1))

\* blank lines around a paragraph are not part of it
RECURSIVE TrimNewlines(_)
TrimNewlines(s) ==
    IF s = <<>> THEN s
    ELSE IF s[1] = NL THEN TrimNewlines(Tail(s))
    ELSE IF s[Len(s)] = NL THEN TrimNewlines(SubSeq(s, 1, Len(s) - 1))
    ELSE s

parse_document(md) ==
    LET body == TrimNewlines(md)
    IN  Node("Document", <<>>, <<>>,
             IF body = <<>> THEN <<>>
             ELSE <<Node("Paragraph", <<>>, <<>>, ParseInlines(body))>>)

HtmlSpecial == {"&", "<", ">", "\"", NL}

\* render.hardbreaks = true: a line break in a paragraph is rendered <br />
EscapeByte(b) ==
    CASE b = "&" -> <<"&", "a", "m", "p", ";">>
      [] b = "<" -> <<"&", "l", "t", ";">>
      [] b = ">" -> <<"&", "g", "t", ";">>
      [] b = "\"" -> <<"&", "q", "u", "o", "t", ";">>
      [] b = NL -> <<"<", "b", "r", " ", "/", ">", NL>>
      [] OTHER -> <<b>>

RECURSIVE EscapeHtml(_)
EscapeHtml(s) ==
    LET i == FindAny(s, HtmlSpecial)
    IN  IF i = 0 THEN s
        ELSE SubSeq(s, 1, i - 1) \o EscapeByte(s[i]) \o EscapeHtml(Drop(s, i + 1))

RECURSIVE FormatNode(_)
RECURSIVE FormatNodes(_)
FormatNodes(ns) ==
    IF ns = <<>> THEN <<>> ELSE FormatNode(Head(ns)) \o FormatNodes(Tail(ns))

FormatNode(n) ==
    CASE n.value = "Document" -> FormatNodes(n.children)
      [] n.value = "Paragraph" ->
            <<"<", "p", ">">> \o FormatNodes(n.children) \o <<"<", "/", "p", ">", NL>>
      [] n.value = "Link" ->
            <<"<", "a", " ", "h", "r", "e", "f", "=", "\"">> \o EscapeHtml(n.url)
            \o <<"\"", ">">> \o FormatNodes(n.children) \o <<"<", "/", "a", ">">>
      [] OTHER -> EscapeHtml(n.literal)

format_html(root) == FormatNode(root)

markdown_to_html(md) == format_html(parse_document(md))

(***************************************************************************)
(* The link rewriter: set_page's closure under iter_md_nodes               *)
(***************************************************************************)
MOUNT_PREFIX == <<"/", "w">>

\* the closure of set_page, lines 124-131: a Link whose url starts with "/"
\* gets "/w" inserted at offset 0
RewriteLink(n) ==
    IF n.value = "Link" /\ StartsWith(n.url, <<"/">>)
    THEN [n EXCEPT !.url = MOUNT_PREFIX \o n.url]
    ELSE n

\* iter_md_nodes(node, f): f(node), then every child in order
RECURSIVE iter_md_nodes(_)
iter_md_nodes(node) ==
    LET n == RewriteLink(node)
    IN  [n EXCEPT !.children = [i \in DOMAIN n.children |-> iter_md_nodes(n.children[i])]]

(***************************************************************************)
(* The preview                                                             *)
(***************************************************************************)
PREVIEW_LIMIT == 500

\* while !md.is_char_boundary(preview_len) { preview_len += 1 }
RECURSIVE AdvanceToBoundary(_, _)
AdvanceToBoundary(md, preview_len) ==
    IF is_char_boundary(md, preview_len) THEN preview_len
    ELSE AdvanceToBoundary(md, preview_len + 1)

\* a cut that retreats to the previous boundary instead of advancing
RECURSIVE RetreatToBoundary(_, _)
RetreatToBoundary(md, preview_len) ==
    IF is_char_boundary(md, preview_len) THEN preview_len
    ELSE RetreatToBoundary(md, preview_len - 1)

PreviewLenBackward(md) == RetreatToBoundary(md, Min(Len(md), PREVIEW_LIMIT))

\* a cut that starts at the end of the source: .min(500) left out
PreviewLenNoLimit(md) == AdvanceToBoundary(md, Len(md))

PreviewLen(md) == AdvanceToBoundary(md, Min(Len(md), PREVIEW_LIMIT))

(***************************************************************************)
(* Page, and its JSON text in the store                                    *)
(***************************************************************************)
\* Page::default()
DefaultPage == [content |-> <<>>, index |-> <<>>, preview |-> <<>>]

JsonSpecial == {"\"", "\\", NL}

JsonEscapeByte(b) == IF b = NL THEN <<"\\", "n">> ELSE <<"\\", b>>

RECURSIVE JsonEscape(_)
JsonEscape(s) ==
    LET i == FindAny(s, JsonSpecial)
    IN  IF i = 0 THEN s
        ELSE SubSeq(s, 1, i - 1) \o JsonEscapeByte(s[i]) \o JsonEscape(Drop(s, i + 1))

JsonString(s) == <<"\"">> \o JsonEscape(s) \o <<"\"">>

KEY_CONTENT == <<"{", "\"", "c", "o", "n", "t", "e", "n", "t", "\"", ":">>
KEY_INDEX == <<",", "\"", "i", "n", "d", "e", "x", "\"", ":">>
KEY_PREVIEW == <<",", "\"", "p", "r", "e", "v", "i", "e", "w", "\"", ":">>

\* serde_json::to_string(&page): the fields in declaration order
to_string(page) ==
    KEY_CONTENT \o JsonString(page.content) \o KEY_INDEX \o JsonString(page.index)
    \o KEY_PREVIEW \o JsonString(page.preview) \o <<"}">>

\* reads the body of a JSON string that starts at offset pos of j (after its
\* opening quote): [value, next], next the offset after the closing quote
RECURSIVE ReadJsonString(_, _)
ReadJsonString(j, pos) ==
    LET i == FindAny(Drop(j, pos), {"\"", "\\"})
        at == pos + i - 1
    IN  IF j[at] = "\"" THEN [value |-> SubSeq(j, pos, at - 1), next |-> at + 1]
        ELSE LET rest == ReadJsonString(j, at + 2)
                 b == IF j[at + 1] = "n" THEN NL ELSE j[at + 1]
             IN  [value |-> SubSeq(j, pos, at - 1) \o <<b>> \o rest.value,
                  next |-> rest.next]

\* serde_json::from_str::<Page>(json)
from_str(j) ==
    LET c == ReadJsonString(j, Len(KEY_CONTENT) + 2)
        i == ReadJsonString(j, c.next + Len(KEY_INDEX) + 1)
        p == ReadJsonString(j, i.next + Len(KEY_PREVIEW) + 1)
    IN  [content |-> c.value, index |-> i.value, preview |-> p.value]

(***************************************************************************)
(* set_page, up to its first await: lines 94-142                           *)
(***************************************************************************)
\* lines 113-121: the index field and the source with the match removed
ExtractIndex(md) ==
    LET index_match == INDEX_RE_captures(md)
    IN  IF index_match = <<>> THEN [index |-> <<>>, md |-> md]
        ELSE LET m == index_match[1]
             IN  [index |-> markdown_to_html(SubSeq(md, m.g1from, m.g1to)),
                  md |-> replace_range(md, m.from, m.to)]

\* lines 123-131
RewrittenRoot(md) == iter_md_nodes(parse_document(md))

\* lines 133-138
Preview(md) == SubSeq(md, 1, PreviewLen(md))

\* the locals of set_page when it reaches self.con().await
Assemble(md0) ==
    LET x == ExtractIndex(md0)
        root == RewrittenRoot(x.md)
    IN  [md |-> x.md, root |-> root,
         page |-> [content |-> format_html(root), index |-> x.index,
                   preview |-> Preview(x.md)]]

NoLocals == [md |-> <<>>, root |-> Node("Document", <<>>, <<>>, <<>>), page |-> DefaultPage]

(***************************************************************************)
(* The store: the redis hash PAGE_KEY                                      *)
(***************************************************************************)
\* HSETNX: a field that exists is left as it is
HSetIfAbsent(st, field, value) ==
    [f \in DOMAIN st \cup {field} |-> IF f \in DOMAIN st THEN st[f] ELSE value]

\* HSET PAGE_KEY field value: the field is created or overwritten
HSet(st, field, value) ==
    [f \in DOMAIN st \cup {field} |-> IF f = field THEN value ELSE st[f]]

\* HGET PAGE_KEY field: Option<String>, <<>> for None and <<v>> for Some(v)
HGet(st, field) == IF field \in DOMAIN st THEN <<st[field]>> ELSE <<>>

EmptyStore == [f \in {} |-> <<>>]

(***************************************************************************)
(* set_page and get_page as calls that suspend at their awaits             *)
(***************************************************************************)
NumCalls == 2
Calls == 1..NumCalls

NoArg == [path |-> <<>>, md |-> <<>>]

\* a call that stores an empty placeholder Page before it assembles
SetPageStartPlaceholder(c, path, md) ==
    /\ pc[c] = "idle"
    /\ pc' = [pc EXCEPT ![c] = "connecting"]
    /\ arg' = [arg EXCEPT ![c] = [path |-> path, md |-> md]]
    /\ loc' = [loc EXCEPT ![c] = Assemble(md)]
    /\ store' = [f \in DOMAIN store \cup {path} |->
                    IF f = path THEN to_string(DefaultPage) ELSE store[f]]
    /\ UNCHANGED <<nwrites, lastWriter, got, upload, search>>

\* the call runs from its first poll to self.con().await (lines 94-144)
SetPageStart(c, path, md) ==
    /\ pc[c] = "idle"
    /\ pc' = [pc EXCEPT ![c] = "connecting"]
    /\ arg' = [arg EXCEPT ![c] = [path |-> path, md |-> md]]
    /\ loc' = [loc EXCEPT ![c] = Assemble(md)]
    /\ UNCHANGED <<store, nwrites, lastWriter, got, upload, search>>

\* self.con().await resolves (line 145)
SetPageConnect(c) ==
    /\ pc[c] = "connecting"
    /\ pc' = [pc EXCEPT ![c] = "connected"]
    /\ UNCHANGED <<store, arg, loc, nwrites, lastWriter, got, upload, search>>

\* self.con().await fails: expect("Redis should be available") panics (line 67)
SetPageConnectFail(c) ==
    /\ pc[c] = "connecting"
    /\ pc' = [pc EXCEPT ![c] = "panicked"]
    /\ UNCHANGED <<store, arg, loc, nwrites, lastWriter, got, upload, search>>

\* the HSET of lines 146-148, the last step of the call
SetPageHSet(c) ==
    /\ pc[c] = "connected"
    /\ store' = HSet(store, arg[c].path, to_string(loc[c].page))
    /\ pc' = [pc EXCEPT ![c] = "done"]
    /\ nwrites' = [nwrites EXCEPT ![c] = @ + 1]
    /\ lastWriter' = [p \in DOMAIN lastWriter \cup {arg[c].path} |->
                         IF p = arg[c].path THEN c ELSE lastWriter[p]]
    /\ UNCHANGED <<arg, loc, got, upload, search>>

\* the request is dropped while the call is suspended at an await
SetPageAbandon(c) ==
    /\ pc[c] \in {"connecting", "connected"}
    /\ pc' = [pc EXCEPT ![c] = "abandoned"]
    /\ UNCHANGED <<store, arg, loc, nwrites, lastWriter, got, upload, search>>

\* get_page(path), lines 87-91: one HGET, then the JSON is decoded
GetPageResult(st, path) ==
    IF HGet(st, path) = <<>> THEN <<>> ELSE <<from_str(HGet(st, path)[1])>>

GetPage(path) ==
    /\ got' = <<path, GetPageResult(store, path)>>
    /\ UNCHANGED <<store, pc, arg, loc, nwrites, lastWriter, upload, search>>

NoUpload == [entries |-> <<>>, pos |-> 0, response |-> "none"]
NoSearch == [query |-> <<>>, scan |-> <<>>, store |-> EmptyStore, results |-> <<>>]

Init ==
    /\ store = EmptyStore
    /\ pc = [c \in Calls |-> "idle"]
    /\ arg = [c \in Calls |-> NoArg]
    /\ loc = [c \in Calls |-> NoLocals]
    /\ nwrites = [c \in Calls |-> 0]
    /\ lastWriter = [p \in {} |-> 0]
    /\ got = <<>>
    /\ upload = NoUpload
    /\ search = NoSearch

(***************************************************************************)
(* Sources                                                                 *)
(***************************************************************************)
INDEX_MD == <<"i", "n", "d", "e", "x", ".", "m", "d">>
A_MD == <<"a", ".", "m", "d">>
B_MD == <<"b", ".", "m", "d">>

\* a well-formed index region
BLOCK == START_TOKEN \o <<NL, "H", "i", NL>> \o END_TOKEN

MaxChunks == 4
IndexChunks == {START_TOKEN, END_TOKEN, <<NL>>, <<"a">>, BLOCK}

RECURSIVE ChunkSources(_)
ChunkSources(n) ==
    IF n = 0 THEN {<<>>}
    ELSE ChunkSources(n - 1) \cup {s \o k : s \in ChunkSources(n - 1), k \in IndexChunks}

Urls ==
    { <<"/", "f", "o", "o", "/", "b", "a", "r">>,
      <<"h", "t", "t", "p", ":", "/", "/", "e", "x", "a", "m", "p", "l", "e", ".", "c", "o", "m">>,
      <<"#", "s", "e", "c", "t", "i", "o", "n">>,
      <<"f", "o", "o", "/", "b", "a", "r">>,
      <<"/", "/", "e", "x", "a", "m", "p", "l", "e", ".", "c", "o", "m">>,
      <<"/">> }

LinkMd(url) == <<"[", "t", "]", "(">> \o url \o <<")">>

\* one or two links in the body, or a link in the index region
LinkSources ==
    {<<"s", "e", "e", " ">> \o LinkMd(u) : u \in Urls}
    \cup {LinkMd(u) \o <<" ">> \o LinkMd(v) : u \in Urls, v \in Urls}
    \cup {START_TOKEN \o <<NL>> \o LinkMd(u) \o <<NL>> \o END_TOKEN \o <<NL>> \o LinkMd(v) :
             u \in Urls, v \in Urls}

Pad(k) == [i \in 1..k |-> "a"]

\* U+00E9, U+20AC, U+1F600 in UTF-8
MultiByteChars == {<<"C3", "A9">>, <<"E2", "82", "AC">>, <<"F0", "9F", "98", "80">>}

MaxBack == 4
MaxTail == 1

\* sources whose byte PREVIEW_LIMIT falls before, inside or after a character
LongSources ==
    {Pad(PREVIEW_LIMIT - b) \o m \o Pad(t) :
        b \in 0..MaxBack, m \in MultiByteChars \cup {<<>>, <<"a">>}, t \in 0..MaxTail}
    \cup {Pad(PREVIEW_LIMIT + 100)}

PreviewSources ==
    LongSources \cup {BLOCK \o <<NL>> \o s : s \in LongSources}
    \cup {m \o n : m \in MultiByteChars, n \in MultiByteChars \cup {<<>>}}

PipelineSources == ChunkSources(MaxChunks) \cup LinkSources \cup PreviewSources

(***************************************************************************)
(* SpecPipeline: one set_page call on every source                         *)
(***************************************************************************)
NextPipeline ==
    \/ \E md \in PipelineSources : SetPageStart(1, INDEX_MD, md)
    \/ SetPageConnect(1)
    \/ SetPageHSet(1)

SpecPipeline == Init /\ [][NextPipeline]_vars

(***************************************************************************)
(* Claims on the pipeline (SpecPipeline)                                   *)
(***************************************************************************)
Started == {c \in Calls : pc[c] # "idle"}

StoredPages == {from_str(store[f]) : f \in DOMAIN store}

\* the text INDEX_RE captured in md, <<>> when it did not match
CapturedText(md) ==
    IF INDEX_RE_captures(md) = <<>> THEN <<>>
    ELSE SubSeq(md, INDEX_RE_captures(md)[1].g1from, INDEX_RE_captures(md)[1].g1to)

\* the destination the claim gives a link of destination d
ClaimedUrl(d) ==
    IF StartsWith(d, <<"/">>) /\ ~StartsWith(d, <<"/", "/">>) THEN MOUNT_PREFIX \o d ELSE d

RECURSIVE ClaimedTree(_)
ClaimedTree(n) ==
    LET m == IF n.value = "Link" THEN [n EXCEPT !.url = ClaimedUrl(n.url)] ELSE n
    IN  [m EXCEPT !.children = [i \in DOMAIN m.children |-> ClaimedTree(m.children[i])]]

ClaimedHtml(md) == format_html(ClaimedTree(parse_document(md)))

\* C1: every hyperlink of the source (of its body and of its index region) is
\* rendered with destination "/w" + d when its destination d starts with a
\* single "/", and with destination d otherwise.
C1_LinksRewritten ==
    \A c \in Started :
        /\ loc[c].page.content = ClaimedHtml(loc[c].md)
        /\ loc[c].page.index =
              IF INDEX_RE_captures(arg[c].md) = <<>> THEN <<>>
              ELSE ClaimedHtml(CapturedText(arg[c].md))

\* the offsets at which token tok stands on a line of its own
OwnLines(md, tok) ==
    {i \in Occurrences(md, tok, 1) :
        /\ i = 1 \/ md[i - 1] = NL
        /\ i + Len(tok) > Len(md) \/ md[i + Len(tok)] = NL}

\* the start lines that an end line follows
ClaimedStarts(md) ==
    {i \in OwnLines(md, START_TOKEN) : \E j \in OwnLines(md, END_TOKEN) : j > i}

\* the block the claim extracts: from the leftmost such start line to the
\* nearest end line after it; the region is the text between the two lines
ClaimedBlock(md) ==
    LET i == MinOf(ClaimedStarts(md))
        j == MinOf({k \in OwnLines(md, END_TOKEN) : k > i})
    IN  [from |-> i, to |-> j + Len(END_TOKEN) - 1,
         inner |-> SubSeq(md, i + Len(START_TOKEN) + 1, j - 2)]

\* C2: an index region is extracted iff the source holds the start token on a
\* line of its own followed later by the end token on a line of its own; then
\* index renders the text between the two lines of the first such pair and the
\* block is removed from the source; otherwise index is empty and the source
\* is unchanged.
C2_IndexRegionExtracted ==
    \A c \in Started :
        IF ClaimedStarts(arg[c].md) # {}
        THEN /\ loc[c].page.index = markdown_to_html(ClaimedBlock(arg[c].md).inner)
             /\ loc[c].md = replace_range(arg[c].md, ClaimedBlock(arg[c].md).from,
                                          ClaimedBlock(arg[c].md).to)
        ELSE /\ loc[c].page.index = <<>>
             /\ loc[c].md = arg[c].md

\* C3: the content of a stored Page holds neither delimiter literal.
C3_ContentHasNoDelimiter ==
    \A p \in StoredPages :
        ~Contains(p.content, START_TOKEN) /\ ~Contains(p.content, END_TOKEN)

\* the UTF-8 character boundaries of s, as 0-based byte offsets
Boundaries(s) ==
    {n \in 0..Len(s) : n = 0 \/ n = Len(s) \/ s[n + 1] \notin ContinuationBytes}

\* C4: with S the source after index-region removal, the preview is S[0..n],
\* n the smallest character boundary of S that is >= min(len(S), 500); a
\* source of 600 ASCII bytes gives a preview of exactly 500 bytes.
C4_PreviewIsPrefixAtBoundary ==
    \A c \in Started :
        LET S == ExtractIndex(arg[c].md).md
            from == Min(Len(S), PREVIEW_LIMIT)
            n == MinOf({k \in Boundaries(S) : k >= from})
        IN  /\ loc[c].page.preview = SubSeq(S, 1, n)
            /\ n <= Len(S)
            /\ arg[c].md = Pad(PREVIEW_LIMIT + 100) => Len(loc[c].page.preview) = PREVIEW_LIMIT
            /\ pc[c] = "done" => from_str(store[arg[c].path]).preview = SubSeq(S, 1, n)

\* C4's case: a finished call whose index region was removed and whose cut
\* moved forward over the rest of a character
C4_Witness ==
    /\ pc[1] = "done"
    /\ loc[1].md # arg[1].md
    /\ Len(loc[1].md) > PREVIEW_LIMIT + 2
    /\ ~is_char_boundary(loc[1].md, PREVIEW_LIMIT)
    /\ Len(from_str(store[INDEX_MD]).preview) = PREVIEW_LIMIT + 2

\* C5 as stated: the preview of a stored Page is at most 500 bytes long.
C5_PreviewAtMost500 ==
    \A p \in StoredPages : Len(p.preview) <= PREVIEW_LIMIT

\* C5 amended: the preview of a stored Page is at most 503 bytes long, and it
\* is longer than 500 bytes only when byte offset 500 falls inside a
\* multi-byte character.
C5_PreviewAtMost503 ==
    \A p \in StoredPages :
        /\ Len(p.preview) <= PREVIEW_LIMIT + 3
        /\ Len(p.preview) > PREVIEW_LIMIT => p.preview[PREVIEW_LIMIT + 1] \in ContinuationBytes

\* C5's case: a stored preview of 503 bytes
C5_Witness ==
    \E p \in StoredPages : Len(p.preview) = PREVIEW_LIMIT + 3

(***************************************************************************)
(* Spec: concurrent set_page and get_page calls                            *)
(***************************************************************************)
Paths == {A_MD, B_MD}

ConcurrentSources == {BLOCK \o <<NL, "b">>, LinkMd(<<"/", "x">>)}

Next ==
    \/ \E c \in Calls, path \in Paths, md \in ConcurrentSources : SetPageStart(c, path, md)
    \/ \E c \in Calls : SetPageConnect(c)
    \/ \E c \in Calls : SetPageConnectFail(c)
    \/ \E c \in Calls : SetPageHSet(c)
    \/ \E c \in Calls : SetPageAbandon(c)
    \/ \E path \in Paths : GetPage(path)

Spec == Init /\ [][Next]_vars

Terminal == {"done", "abandoned", "panicked"}

\* the Page a call assembles from its own arguments
PageOf(c) == Assemble(arg[c].md).page

\* the store after one write of record r at path p, every other field as it was
Overwritten(st, p, r) == [f \in DOMAIN st \cup {p} |-> IF f = p THEN r ELSE st[f]]

\* C6: a set_page call writes the store exactly once, as its last step: no
\* earlier step of the call changes the store (an abandoned call changes
\* nothing), and the write leaves at the call's path the Page assembled by the
\* call and every other record as it was.
C6_OneWriteAsFinalStep ==
    /\ [](\A c \in Calls : nwrites[c] = IF pc[c] = "done" THEN 1 ELSE 0)
    /\ [][\A c \in Calls :
             pc'[c] # pc[c] =>
                IF pc'[c] = "done"
                THEN /\ store' = Overwritten(store, arg[c].path, to_string(PageOf(c)))
                     /\ from_str(store'[arg[c].path]) = PageOf(c)
                ELSE store' = store]_vars
    /\ [][store' # store => \E c \in Calls : pc[c] # "done" /\ pc'[c] = "done"]_vars

\* C6's case: a finished call has overwritten the record of an earlier call,
\* whose index was not empty, with a Page of empty index
C6_Witness ==
    \E c, d \in Calls :
        /\ pc[c] = "done" /\ pc[d] = "done" /\ c # d
        /\ arg[c].path = arg[d].path
        /\ lastWriter[arg[c].path] = d
        /\ PageOf(c).index # <<>>
        /\ from_str(store[arg[d].path]).index = <<>>

\* C10: once every set_page call has completed, the record at each path is
\* the complete Page of the call whose write to that path came last; a write
\* never changes the record of another path; and get_page returns absent or
\* the complete Page of one finished call for that path.
C10_LastWriteWins ==
    /\ []((\A c \in Calls : pc[c] \in Terminal) =>
             /\ DOMAIN store = {arg[c].path : c \in {d \in Calls : pc[d] = "done"}}
             /\ \A p \in DOMAIN store : store[p] = to_string(PageOf(lastWriter[p])))
    /\ [](got # <<>> /\ got[2] # <<>> =>
             \E c \in Calls : pc[c] = "done" /\ arg[c].path = got[1] /\ got[2][1] = PageOf(c))
    /\ [][\A c \in Calls : pc'[c] # pc[c] =>
             \A p \in DOMAIN store : p # arg'[c].path =>
                p \in DOMAIN store' /\ store'[p] = store[p]]_vars

\* C10's case: every call has completed, two of them wrote one path with
\* different sources, and a get_page of that path returned the last write
C10_Witness ==
    /\ \A c \in Calls : pc[c] \in Terminal
    /\ \E c, d \in Calls :
          /\ pc[c] = "done" /\ pc[d] = "done" /\ c # d
          /\ arg[c].path = arg[d].path /\ arg[c].md # arg[d].md
          /\ got # <<>> /\ got[1] = arg[c].path /\ got[2] = <<PageOf(lastWriter[got[1]])>>

(***************************************************************************)
(* upload_file (src/main.rs)                                               *)
(***************************************************************************)
\* the store after a set_page(path, md) call that ran to completion
SetPageDone(st, path, md) == HSet(st, path, to_string(Assemble(md).page))

MD_SUFFIX == <<".", "m", "d">>

\* ZipFile::enclosed_name: None (<<>>) for a name that leaves the archive root
enclosed_name(name) ==
    IF StartsWith(name, <<".", ".", "/">>) \/ StartsWith(name, <<"/">>) THEN <<>> ELSE <<name>>

\* an archive entry: its name, whether it is a directory, and its bytes: md
\* when they are valid UTF-8 (utf8), undecodable otherwise
Entry(name, is_dir, utf8, md) == [name |-> name, is_dir |-> is_dir, utf8 |-> utf8, md |-> md]

\* lines 105-115: the session check, then the archive is opened
UploadStart(authed, readable, entries) ==
    /\ upload.response = "none"
    /\ upload' = IF ~authed THEN [entries |-> entries, pos |-> 0, response |-> "redirect"]
                 ELSE IF ~readable THEN [entries |-> entries, pos |-> 0, response |-> "error415"]
                 ELSE [entries |-> entries, pos |-> 1, response |-> "running"]
    /\ UNCHANGED <<store, pc, arg, loc, nwrites, lastWriter, got, search>>

\* one iteration of the loop of lines 117-134
UploadEntry ==
    /\ upload.response = "running"
    /\ upload.pos <= Len(upload.entries)
    /\ LET f == upload.entries[upload.pos]
       IN  IF f.is_dir
           THEN /\ upload' = [upload EXCEPT !.pos = @ + 1]
                /\ store' = store
           ELSE IF EndsWith(f.name, MD_SUFFIX) /\ enclosed_name(f.name) # <<>>
           THEN IF ~f.utf8
                THEN \* read_to_string fails: map_err(ErrorUnsupportedMediaType)?
                     /\ upload' = [upload EXCEPT !.response = "error415"]
                     /\ store' = store
                ELSE /\ store' = SetPageDone(store, enclosed_name(f.name)[1], f.md)
                     /\ upload' = [upload EXCEPT !.pos = @ + 1]
           ELSE /\ upload' = [upload EXCEPT !.pos = @ + 1]
                /\ store' = store
    /\ UNCHANGED <<pc, arg, loc, nwrites, lastWriter, got, search>>

\* lines 136-140: "Upload successful!"
UploadFinish ==
    /\ upload.response = "running"
    /\ upload.pos > Len(upload.entries)
    /\ upload' = [upload EXCEPT !.response = "ok"]
    /\ UNCHANGED <<store, pc, arg, loc, nwrites, lastWriter, got, search>>

C_MD == <<"c", ".", "m", "d">>

ArchiveEntries ==
    { Entry(A_MD, FALSE, TRUE, <<"a">>),
      Entry(B_MD, FALSE, FALSE, <<>>),
      Entry(C_MD, FALSE, TRUE, BLOCK \o <<NL, "c">>),
      Entry(<<"d", "o", "c", "s", "/">>, TRUE, TRUE, <<>>),
      Entry(<<"i", "m", "g", ".", "p", "n", "g">>, FALSE, FALSE, <<>>),
      Entry(<<".", ".", "/", "x", ".", "m", "d">>, FALSE, TRUE, <<"x">>) }

MaxEntries == 3

\* the archives of at most n entries, in every order the handler may visit them
RECURSIVE Archives(_)
Archives(n) ==
    IF n = 0 THEN {<<>>}
    ELSE Archives(n - 1) \cup
         {Append(a, e) : a \in Archives(n - 1),
                         e \in ArchiveEntries}

DistinctNames(a) == \A i, j \in DOMAIN a : a[i].name = a[j].name => i = j

NextUpload ==
    \/ \E authed \in BOOLEAN, readable \in BOOLEAN,
          entries \in {a \in Archives(MaxEntries) : DistinctNames(a)} :
            UploadStart(authed, readable, entries)
    \/ UploadEntry
    \/ UploadFinish

SpecUpload == Init /\ [][NextUpload]_vars

\* C7: when reading a markdown entry fails because its bytes are not valid
\* UTF-8 only that entry is skipped: once the handler has returned, every
\* other markdown entry of the archive, those after the failing one included,
\* has been assembled and written to the store.
C7_BadEntryIsSkipped ==
    upload.response \in {"ok", "error415"} /\ upload.pos > 0 =>
        \A i \in DOMAIN upload.entries :
            LET f == upload.entries[i]
            IN  ~f.is_dir /\ EndsWith(f.name, MD_SUFFIX) /\ enclosed_name(f.name) # <<>> /\ f.utf8
                => /\ f.name \in DOMAIN store
                   /\ from_str(store[f.name]) = Assemble(f.md).page

(***************************************************************************)
(* run_search                                                              *)
(***************************************************************************)
UPPER == <<"A", "B", "C", "D", "E", "F", "G", "H", "I", "J", "K", "L", "M", "N", "O", "P", 
         "Q", "R", "S", "T", "U", "V", "W", "X", "Y", "Z">>
LOWER == <<"a", "b", "c", "d", "e", "f", "g", "h", "i", "j", "k", "l", "m", "n", "o", "p", 
         "q", "r", "s", "t", "u", "v", "w", "x", "y", "z">>

to_lowercase_byte(b) ==
    IF \E i \in DOMAIN UPPER : UPPER[i] = b
    THEN LOWER[CHOOSE i \in DOMAIN UPPER : UPPER[i] = b]
    ELSE b

\* str::to_lowercase
to_lowercase(s) == [i \in DOMAIN s |-> to_lowercase_byte(s[i])]

\* a character class of a glob pattern, p the pattern after its "[":
\* [not, members, rest]; the class ends at "]" or with the pattern
RECURSIVE GlobClassMembers(_)
GlobClassMembers(p) ==
    IF p = <<>> THEN [members |-> {}, rest |-> <<>>]
    ELSE IF p[1] = "]" THEN [members |-> {}, rest |-> Tail(p)]
    ELSE IF p[1] = "\\" /\ Len(p) >= 2
         THEN LET r == GlobClassMembers(Drop(p, 3))
              IN  [members |-> r.members \cup {p[2]}, rest |-> r.rest]
    ELSE LET r == GlobClassMembers(Tail(p))
         IN  [members |-> r.members \cup {p[1]}, rest |-> r.rest]

\* the glob match of redis (MATCH of HSCAN): "*", "?", "[...]", "\" and
\* literal bytes, compared case-sensitively
RECURSIVE GlobMatch(_, _)
GlobMatch(p, s) ==
    IF p = <<>> THEN s = <<>>
    ELSE IF p[1] = "*"
         THEN \E k \in 1..(Len(s) + 1) : GlobMatch(Tail(p), Drop(s, k))
    ELSE IF s = <<>> THEN FALSE
    ELSE IF p[1] = "?" THEN GlobMatch(Tail(p), Tail(s))
    ELSE IF p[1] = "["
         THEN LET not == Len(p) >= 2 /\ p[2] = "^"
                  cls == GlobClassMembers(Drop(p, IF not THEN 3 ELSE 2))
              IN  /\ (s[1] \in cls.members) # not
                  /\ GlobMatch(cls.rest, Tail(s))
    ELSE IF p[1] = "\\" /\ Len(p) >= 2
         THEN p[2] = s[1] /\ GlobMatch(Drop(p, 3), Tail(s))
    ELSE p[1] = s[1] /\ GlobMatch(Tail(p), Tail(s))

\* format!("*{}*", search)
ScanPattern(search_l) == <<"*">> \o search_l \o <<"*">>

\* the fields HSCAN ... MATCH pattern returns
ScanKeys(st, pattern) == {k \in DOMAIN st : GlobMatch(pattern, k)}

\* key.split('/').last()
LastSegment(key) ==
    LET slashes == {i \in DOMAIN key : key[i] = "/"}
    IN  IF slashes = {} THEN key
        ELSE Drop(key, (CHOOSE i \in slashes : \A j \in slashes : j <= i) + 1)

\* str::trim_end_matches(".md"): every trailing repetition is removed
RECURSIVE trim_end_matches_md(_)
trim_end_matches_md(s) ==
    IF EndsWith(s, MD_SUFFIX) THEN trim_end_matches_md(SubSeq(s, 1, Len(s) - Len(MD_SUFFIX)))
    ELSE s

\* lines 170-178
TitleOf(key) ==
    LET t == trim_end_matches_md(LastSegment(key))
    IN  [i \in DOMAIN t |-> IF t[i] = "-" THEN " " ELSE t[i]]

\* lines 169-185: one SearchResult of a scanned (key, value) pair
ToSearchResult(key, val) ==
    [title |-> TitleOf(key), url |-> <<"w", "/">> \o key, preview |-> from_str(val).preview]

(***************************************************************************)
(* strsim::jaro_winkler, on exact fractions [num, den]                     *)
(***************************************************************************)
Frac(n, d) == [num |-> n, den |-> d]
FracGeq(x, y) == x.num * y.den >= y.num * x.den
FracEq(x, y) == x.num * y.den = y.num * x.den

\* the loop of generic_jaro over the elements i.. of a (0-based), st its
\* variables: b_consumed, matches, transpositions, b_match_index
RECURSIVE JaroLoop(_, _, _, _, _)
JaroLoop(a, b, search_range, i, st) ==
    IF i >= Len(a) THEN st
    ELSE LET min_bound == IF i > search_range THEN i - search_range ELSE 0
             max_bound == Min(Len(b) - 1, i + search_range)
             J == {j \in min_bound..max_bound : a[i + 1] = b[j + 1] /\ j \notin st.b_consumed}
         IN  IF J = {} THEN JaroLoop(a, b, search_range, i + 1, st)
             ELSE LET j == MinOf(J)
                  IN  JaroLoop(a, b, search_range, i + 1,
                               [b_consumed |-> st.b_consumed \cup {j},
                                matches |-> st.matches + 1,
                                transpositions |->
                                    st.transpositions + (IF j < st.b_match_index THEN 1 ELSE 0),
                                b_match_index |-> j])

jaro(a, b) ==
    IF Len(a) = 0 /\ Len(b) = 0 THEN Frac(1, 1)
    ELSE IF Len(a) = 0 \/ Len(b) = 0 THEN Frac(0, 1)
    ELSE IF Len(a) = 1 /\ Len(b) = 1 THEN (IF a = b THEN Frac(1, 1) ELSE Frac(0, 1))
    ELSE LET st == JaroLoop(a, b, (Max(Len(a), Len(b)) \div 2) - 1, 0,
                            [b_consumed |-> {}, matches |-> 0, transpositions |-> 0,
                             b_match_index |-> 0])
             m == st.matches
         IN  IF m = 0 THEN Frac(0, 1)
             ELSE Frac(m * m * Len(b) + m * m * Len(a) + (m - st.transpositions) * Len(a) * Len(b),
                       3 * Len(a) * Len(b) * m)

\* the length of the common prefix
RECURSIVE CommonPrefix(_, _)
CommonPrefix(a, b) ==
    IF a = <<>> \/ b = <<>> \/ a[1] # b[1] THEN 0 ELSE 1 + CommonPrefix(Tail(a), Tail(b))

\* jaro + 0.1 * prefix * (1 - jaro), at most 1
jaro_winkler(a, b) ==
    LET j == jaro(a, b)
        jw == Frac(10 * j.num + CommonPrefix(a, b) * (j.den - j.num), 10 * j.den)
    IN  IF jw.num <= jw.den THEN jw ELSE Frac(1, 1)

\* results.sort_by(|a, b| jaro_winkler(b.title, search).total_cmp(jaro_winkler(a.title, search))):
\* a stable sort, by descending similarity
RECURSIVE InsertSorted(_, _, _)
InsertSorted(sorted, r, search_l) ==
    IF sorted = <<>> THEN <<r>>
    ELSE LET last == sorted[Len(sorted)]
         IN  IF FracGeq(jaro_winkler(last.title, search_l), jaro_winkler(r.title, search_l))
             THEN Append(sorted, r)
             ELSE Append(InsertSorted(SubSeq(sorted, 1, Len(sorted) - 1), r, search_l), last)

RECURSIVE SortResults(_, _)
SortResults(results, search_l) ==
    IF results = <<>> THEN <<>>
    ELSE InsertSorted(SortResults(SubSeq(results, 1, Len(results) - 1), search_l),
                      results[Len(results)], search_l)

\* run_search(search), given the order in which HSCAN returns the matching fields
RunSearchResults(st, search_q, scan) ==
    LET search_l == to_lowercase(search_q)
    IN  SortResults([i \in DOMAIN scan |-> ToSearchResult(scan[i], st[scan[i]])], search_l)

\* the orders in which a scan may return the fields of set K
Orders(K) == {o \in [1..Cardinality(K) -> K] : \A i, j \in DOMAIN o : o[i] = o[j] => i = j}

RunSearch(search_q) ==
    /\ \E scan \in Orders(ScanKeys(store, ScanPattern(to_lowercase(search_q)))) :
          search' = [query |-> <<search_q>>, scan |-> scan, store |-> store,
                     results |-> RunSearchResults(store, search_q, scan)]
    /\ UNCHANGED <<store, pc, arg, loc, nwrites, lastWriter, got, upload>>

\* a set_page(path, md) call with no other request in between
SetPageAlone(path, md, cap) ==
    /\ path \in DOMAIN store \/ Cardinality(DOMAIN store) < cap
    /\ store' = SetPageDone(store, path, md)
    /\ UNCHANGED <<pc, arg, loc, nwrites, lastWriter, got, upload, search>>

SearchKeys ==
    { <<"d", "o", "c", "s", "/", "s", "e", "t", "u", "p", ".", "m", "d">>,
      <<"d", "o", "c", "s", "/", "s", "e", "t", "u", "p", "-", "a", "d", "v", "a", "n", "c", "e", "d", ".", "m", "d">>,
      <<"S", "e", "t", "u", "p", ".", "m", "d">>,
      <<"s", "e", "t", "u", "p", "/", "S", "e", "t", "u", "p", ".", "m", "d">>,
      <<"n", "o", "t", "e", "s", ".", "m", "d">> }

Queries ==
    { <<"s", "e", "t", "u", "p">>,
      <<"S", "e", "t", "u", "p">>,
      <<"s", "*", "p">>,
      <<"?">>,
      <<"[">>,
      <<"\\">>,
      <<"m", "d">> }

MaxPages == 3

NextSearch ==
    \/ \E path \in SearchKeys : SetPageAlone(path, path, MaxPages)
    \/ \E q \in Queries : RunSearch(q)

SpecSearch == Init /\ [][NextSearch]_vars

Searched == search.query # <<>>

\* C8: run_search(q) returns exactly one result for each stored page whose
\* key, lower-cased, contains lower-case(q) as a literal substring, and none
\* for any other page; each result carries the preview of its page.
C8_ResultsAreSubstringMatches ==
    Searched =>
        LET q == search.query[1]
            hits == {k \in DOMAIN search.store : Contains(to_lowercase(k), to_lowercase(q))}
        IN  /\ {r.url : r \in {search.results[i] : i \in DOMAIN search.results}}
                  = {<<"w", "/">> \o k : k \in hits}
            /\ Len(search.results) = Cardinality(hits)
            /\ \A i \in DOMAIN search.results :
                  \A k \in hits : search.results[i].url = <<"w", "/">> \o k =>
                      search.results[i].preview = from_str(search.store[k]).preview

\* the place of a result in the scan
ScanPlace(r) == CHOOSE i \in DOMAIN search.scan : <<"w", "/">> \o search.scan[i] = r.url

\* C9: the results are ordered by descending Jaro-Winkler similarity of title
\* and the query as given (not lower-cased); results of equal similarity keep
\* the order of the scan.
C9_OrderedBySimilarityToQuery ==
    Searched =>
        LET q == search.query[1]
            rs == search.results
        IN  \A i, j \in DOMAIN rs : i < j =>
                /\ FracGeq(jaro_winkler(rs[i].title, q), jaro_winkler(rs[j].title, q))
                /\ FracEq(jaro_winkler(rs[i].title, q), jaro_winkler(rs[j].title, q))
                      => ScanPlace(rs[i]) < ScanPlace(rs[j])

====
